---- MODULE Spec2Model ----
(***************************************************************************)
(* Type relations of src/relay/op/type_relations.cc: IdentityRel,          *)
(* BroadcastRel, BroadcastCompRel and ConcatRel, with the helpers ToInt,   *)
(* ToTensorType, ConcreteBroadcast and ConcreteConcatRel.                  *)
(*                                                                         *)
(* A relation is a pure function from an argument list of types to an      *)
(* argument list of types (or a failure).  The type solver that owns the   *)
(* argument list calls the relation, stores the returned list and calls    *)
(* the relation again on it.  A behaviour of the model is one operator     *)
(* instance: a relation, its argument list, and the calls the solver makes.*)
(***************************************************************************)
EXTENDS Integers, Sequences, FiniteSets

VARIABLES
    rel,      \* the relation of this operator instance
    types,    \* the solver's current argument list (what the next call gets)
    args,     \* the argument list handed to the most recent call
    status,   \* "ready" (no call yet), "returned", "failed"
    err,      \* the failure of the most recent call, NoError if it returned
    calls     \* number of calls made so far

vars == <<rel, types, args, status, err, calls>>

----------------------------------------------------------------------------
(* Bounds of the model. *)

MaxDim == 2       \* generated dimensions are the constants 1..MaxDim
MaxRank == 2      \* generated shapes have at most MaxRank dimensions
MaxCalls == 2     \* the solver calls the relation at most MaxCalls times

----------------------------------------------------------------------------
(* Dimension expressions (tvm::Expr): an integer literal or anything else. *)

IntImm(v) == [node |-> "IntImm", value |-> v]

\* a non-constant dimension expression (a tvm::Var)
Var == [node |-> "Var", value |-> 0]

\* Array<ShapeExpr> of integer literals
Sh(s) == [i \in 1..Len(s) |-> IntImm(s[i])]

(* Types (relay::Type): the three variants the relations inspect. *)

TensorType(shape, dtype) == [kind |-> "Tensor", shape |-> shape, dtype |-> dtype]

TupleType(fields) == [kind |-> "Tuple", fields |-> fields]

\* two IncompleteType nodes are distinct objects: id tells them apart
IncompleteType(id) == [kind |-> "Incomplete", id |-> id]

\* t.as<IncompleteTypeNode>()
IsIncomplete(t) == t.kind = "Incomplete"

\* ToTensorType(t) is non-null
IsTensor(t) == t.kind = "Tensor"

----------------------------------------------------------------------------
(* Results of a call: a value, or a failure (CHECK failure or exception). *)

Ok(v) == [ok |-> TRUE, val |-> v]

Fail(kind, d1, d2) == [ok |-> FALSE, kind |-> kind, dim1 |-> d1, dim2 |-> d2]

NoError == [kind |-> "none", dim1 |-> 0, dim2 |-> 0]

ErrorOf(r) == [kind |-> r.kind, dim1 |-> r.dim1, dim2 |-> r.dim2]

----------------------------------------------------------------------------
\* ToInt: CHECK(imm) fails unless the expression is an integer literal;
\* otherwise the literal's value (the model's values all fit in an int).
ToInt(e) ==
    IF e.node = "IntImm" THEN Ok(e.value) ELSE Fail("ToInt", 0, 0)

\* IdentityRel with the inference also run backwards, from a known output
\* to an unknown input
IdentityRelBackward(ts) ==
    IF Len(ts) # 2 THEN Fail("CHECK_EQ types.size", Len(ts), 2)
    ELSE IF IsTensor(ts[1]) /\ IsIncomplete(ts[2])
         THEN Ok(<<ts[1], ts[1]>>)
    ELSE IF IsIncomplete(ts[1]) /\ IsTensor(ts[2])
         THEN Ok(<<ts[2], ts[2]>>)
         ELSE Ok(ts)

\* IdentityRel
IdentityRel(ts) ==
    IF Len(ts) # 2 THEN Fail("CHECK_EQ types.size", Len(ts), 2)
    ELSE IF IsTensor(ts[1]) /\ IsIncomplete(ts[2])
         THEN Ok(<<ts[1], ts[1]>>)
         ELSE Ok(ts)

----------------------------------------------------------------------------
(* ConcreteBroadcast *)

Min(a, b) == IF a < b THEN a ELSE b

Max(a, b) == IF a > b THEN a ELSE b

\* The while loop over the two reversed shapes.  k is the number of trailing
\* positions already compared; the loop ends when either iterator hits rend.
RECURSIVE CheckSuffix(_, _, _)
CheckSuffix(sh1, sh2, k) ==
    IF k >= Len(sh1) \/ k >= Len(sh2) THEN Ok(k)
    ELSE LET dim1 == ToInt(sh1[Len(sh1) - k])
             dim2 == ToInt(sh2[Len(sh2) - k])
         IN  IF ~dim1.ok THEN dim1
             ELSE IF ~dim2.ok THEN dim2
             ELSE IF dim1.val # dim2.val /\ dim1.val # 1 /\ dim2.val # 1
                  THEN Fail("Dimension mismatch", dim1.val, dim2.val)
                  ELSE CheckSuffix(sh1, sh2, k + 1)

\* the (full_len - suffix_len) literal 1s pushed onto `smaller`
Padding(n) == [i \in 1..n |-> IntImm(1)]

\* `smaller` after the if / else-if / else that follows the padding loop:
\* only the first branch appends to the padded array, the other two assign sh2
Smaller(sh1, sh2) ==
    LET suffix_len == Min(Len(sh1), Len(sh2))
        full_len == Max(Len(sh1), Len(sh2))
    IN  IF Len(sh1) < Len(sh2) THEN Padding(full_len - suffix_len) \o sh1
        ELSE sh2

\* `larger` after the same if / else-if / else
Larger(sh1, sh2) == IF Len(sh1) < Len(sh2) THEN sh2 ELSE sh1

\* the out_shape loop: CHECK(left), CHECK(right), dim = max(left, right)
OutShape(smaller, larger) ==
    IF \E i \in 1..Len(smaller) :
            smaller[i].node # "IntImm" \/ larger[i].node # "IntImm"
    THEN Fail("CHECK IntImm", 0, 0)
    ELSE Ok([i \in 1..Len(smaller) |->
                IntImm(Max(smaller[i].value, larger[i].value))])

ConcreteBroadcast(t1, t2, output_dtype) ==
    LET sh1 == t1.shape
        sh2 == t2.shape
    IN  IF Len(sh1) = 0 /\ Len(sh2) = 0 THEN Ok(TensorType(<<>>, output_dtype))
        ELSE LET walk == CheckSuffix(sh1, sh2, 0)
                 smaller == Smaller(sh1, sh2)
                 larger == Larger(sh1, sh2)
             IN  IF ~walk.ok THEN walk
                 ELSE IF Len(larger) # Len(smaller)
                      THEN Fail("CHECK_EQ larger.size smaller.size",
                                Len(larger), Len(smaller))
                 ELSE LET out_shape == OutShape(smaller, larger)
                      IN  IF ~out_shape.ok THEN out_shape
                          ELSE Ok(TensorType(out_shape.val, output_dtype))

\* HalideIR::Bool()
Bool == "bool"

\* BroadcastRel
BroadcastRel(ts) ==
    IF Len(ts) # 3 THEN Fail("CHECK_EQ types.size", Len(ts), 3)
    ELSE IF IsTensor(ts[1]) /\ IsTensor(ts[2])
         THEN IF ts[1].dtype # ts[2].dtype THEN Fail("CHECK_EQ dtype", 0, 0)
              ELSE LET b == ConcreteBroadcast(ts[1], ts[2], ts[1].dtype)
                   IN  IF b.ok THEN Ok(<<ts[1], ts[2], b.val>>) ELSE b
         ELSE Ok(ts)

\* BroadcastCompRel
BroadcastCompRel(ts) ==
    IF Len(ts) # 3 THEN Fail("CHECK_EQ types.size", Len(ts), 3)
    ELSE IF IsTensor(ts[1]) /\ IsTensor(ts[2])
         THEN LET b == ConcreteBroadcast(ts[1], ts[2], Bool)
              IN  IF b.ok THEN Ok(<<ts[1], ts[2], b.val>>) ELSE b
         ELSE Ok(ts)

----------------------------------------------------------------------------
(* ConcreteConcatRel and ConcatRel *)

\* What a read of dims[i - 1] past the end of the vector can do (undefined
\* behaviour): yield a value equal to the dimension it is compared with,
\* yield a different value, or fault.
OobReads == {"equal", "differ", "crash"}

\* The first loop: dims collects ToInt of every dimension of the first field
\* except the leading one.  k is the next position of the shape to read.
RECURSIVE CollectDims(_, _, _)
CollectDims(shape, k, dims) ==
    IF k > Len(shape) THEN Ok(dims)
    ELSE LET d == ToInt(shape[k])
         IN  IF ~d.ok THEN d ELSE CollectDims(shape, k + 1, Append(dims, d.val))

\* The inner loop over one field's shape, i the (1-based) position.  Position
\* 1 is axis 0 and is pushed to axis_dims; position i > 1 is compared with
\* dims[i - 1] (1-based), which lies past the end when i - 1 > Len(dims).
RECURSIVE CheckField(_, _, _, _, _)
CheckField(dims, shape, i, axis_dims, oob) ==
    IF i > Len(shape) THEN Ok(axis_dims)
    ELSE LET d == ToInt(shape[i])
         IN  IF ~d.ok THEN d
             ELSE IF i = 1
                  THEN CheckField(dims, shape, i + 1, Append(axis_dims, d.val), oob)
             ELSE IF i - 1 <= Len(dims)
                  THEN IF dims[i - 1] # d.val
                       THEN Fail("CHECK_EQ dims", dims[i - 1], d.val)
                       ELSE CheckField(dims, shape, i + 1, axis_dims, oob)
             ELSE IF oob = "equal"
                  THEN CheckField(dims, shape, i + 1, axis_dims, oob)
             ELSE IF oob = "differ" THEN Fail("CHECK_EQ dims", 0, d.val)
             ELSE Fail("out-of-bounds read", 0, 0)

\* The outer loop over the tuple's fields, k the next field.
RECURSIVE CheckFields(_, _, _, _, _)
CheckFields(dims, fields, k, axis_dims, oob) ==
    IF k > Len(fields) THEN Ok(axis_dims)
    ELSE IF ~IsTensor(fields[k]) THEN Fail("Downcast", 0, 0)
    ELSE LET r == CheckField(dims, fields[k].shape, 1, axis_dims, oob)
         IN  IF ~r.ok THEN r ELSE CheckFields(dims, fields, k + 1, r.val, oob)

\* an accumulate that stops one element short of axis_dims.end()
RECURSIVE AccumulateButLast(_)
AccumulateButLast(s) ==
    IF Len(s) <= 1 THEN 0 ELSE s[1] + AccumulateButLast(Tail(s))

\* std::accumulate(axis_dims.begin(), axis_dims.end(), 0)
RECURSIVE Accumulate(_)
Accumulate(s) == IF s = <<>> THEN 0 ELSE s[1] + Accumulate(Tail(s))

ConcreteConcatRel(input_type, oob) ==
    IF input_type.kind # "Tuple"
    THEN Fail("TypeRelationError: concat needs a tuple", 0, 0)
    ELSE LET fields == input_type.fields
         IN  IF ~(1 < Len(fields)) THEN Fail("CHECK_LT fields.size", 1, Len(fields))
             ELSE IF ~IsTensor(fields[1]) THEN Fail("Downcast", 0, 0)
             ELSE LET first == fields[1]
                      dims == CollectDims(first.shape, 2, <<>>)
                  IN  IF ~dims.ok THEN dims
                      ELSE LET axis_dims == CheckFields(dims.val, fields, 1, <<>>, oob)
                           IN  IF ~axis_dims.ok THEN axis_dims
                               ELSE Ok(TensorType(
                                       <<IntImm(Accumulate(axis_dims.val))>>
                                           \o Sh(dims.val),
                                       first.dtype))

\* ConcatRel with the last branch deferring instead of throwing
ConcatRelDefers(ts, oob) ==
    IF Len(ts) # 2 THEN Fail("CHECK_EQ types.size", Len(ts), 2)
    ELSE IF IsIncomplete(ts[1]) /\ IsIncomplete(ts[2]) THEN Ok(ts)
    ELSE IF IsIncomplete(ts[2])
         THEN LET out == ConcreteConcatRel(ts[1], oob)
              IN  IF out.ok THEN Ok(<<ts[1], out.val>>) ELSE out
    ELSE Ok(ts)

\* ConcatRel
ConcatRel(ts, oob) ==
    IF Len(ts) # 2 THEN Fail("CHECK_EQ types.size", Len(ts), 2)
    ELSE IF IsIncomplete(ts[1]) /\ IsIncomplete(ts[2]) THEN Ok(ts)
    ELSE IF IsIncomplete(ts[2])
         THEN LET out == ConcreteConcatRel(ts[1], oob)
              IN  IF out.ok THEN Ok(<<ts[1], out.val>>) ELSE out
    ELSE Fail("TypeRelationError: can not deduce", 0, 0)

----------------------------------------------------------------------------
(* The argument lists the solver can start from. *)

DTypes == {"int32", "float32"}

\* all sequences over S of length at most n
SeqsUpTo(S, n) == UNION {[1..k -> S] : k \in 0..n}

\* generated shapes: constant dimensions 1..MaxDim, rank at most r
GenShapes(r) == SeqsUpTo({IntImm(v) : v \in 1..MaxDim}, r)

\* shapes of larger rank and dimension, and shapes with a non-constant dimension
ExampleShapes ==
    {Sh(<<8, 1, 6, 1>>), Sh(<<7, 1, 5>>), Sh(<<3, 4>>), Sh(<<4>>), Sh(<<5>>), Sh(<<2, 4>>),
     <<Var>>, <<IntImm(2), Var>>, <<Var, IntImm(2)>>}

GenTensors == {TensorType(s, d) : s \in GenShapes(MaxRank), d \in DTypes}

TensorTypes ==
    GenTensors \cup {TensorType(s, "int32") : s \in ExampleShapes}

T(s) == TensorType(Sh(s), "int32")

ExampleTuples ==
    {TupleType(<<T(<<2, 5>>), T(<<3, 5>>)>>),
     TupleType(<<T(<<2, 5>>), T(<<3, 6>>)>>),
     TupleType(<<T(<<2, 5>>), T(<<3>>)>>),
     TupleType(<<T(<<2, 5>>), T(<<3, 5, 7>>)>>),
     TupleType(<<T(<<2, 5>>), T(<<3, 5>>), T(<<4, 5>>)>>),
     TupleType(<<T(<<2, 5>>), T(<<3, 5>>), T(<<4, 6>>)>>),
     TupleType(<<TensorType(<<Var, IntImm(5)>>, "int32"), T(<<3, 5>>)>>),
     TupleType(<<T(<<2, 5>>), IncompleteType(0)>>)}

\* generated tuples: no field, one field, two fields
GenTuples ==
    {TupleType(<<>>)}
        \cup {TupleType(<<a>>) : a \in GenTensors}
        \cup {TupleType(<<a, b>>) : a \in GenTensors, b \in GenTensors}

\* what an input slot i can hold
Operand(i) == TensorTypes \cup ExampleTuples \cup {IncompleteType(i)}

\* what an output slot i can hold before the first call: nothing yet, or a
\* scalar or vector type set by an earlier unification
OutSlot(i) ==
    {IncompleteType(i)}
        \cup {TensorType(s, d) : s \in GenShapes(1), d \in DTypes}

Relations == {"IdentityRel", "BroadcastRel", "BroadcastCompRel", "ConcatRel"}

ArgLists(r) ==
    IF r = "IdentityRel"
    THEN {<<a, b>> : a \in Operand(1), b \in Operand(2)}
    ELSE IF r = "ConcatRel"
    THEN {<<a, b>> : a \in GenTuples \cup Operand(1), b \in OutSlot(2)}
    ELSE {<<a, b, c>> : a \in Operand(1), b \in Operand(2), c \in OutSlot(3)}

----------------------------------------------------------------------------
(* The solver: one operator instance, called up to MaxCalls times. *)

Init ==
    /\ rel \in Relations
    /\ types \in ArgLists(rel)
    /\ args = types
    /\ status = "ready"
    /\ err = NoError
    /\ calls = 0

\* the solver stores what the call returned, or stops at its failure
Store(res) ==
    /\ args' = types
    /\ calls' = calls + 1
    /\ IF res.ok
       THEN types' = res.val /\ status' = "returned" /\ err' = NoError
       ELSE types' = types /\ status' = "failed" /\ err' = ErrorOf(res)
    /\ UNCHANGED rel

CanCall(r) == rel = r /\ status # "failed" /\ calls < MaxCalls

CallIdentityRel == CanCall("IdentityRel") /\ Store(IdentityRel(types))

CallBroadcastRel == CanCall("BroadcastRel") /\ Store(BroadcastRel(types))

CallBroadcastCompRel == CanCall("BroadcastCompRel") /\ Store(BroadcastCompRel(types))

CallConcatRel == CanCall("ConcatRel") /\ \E oob \in OobReads : Store(ConcatRel(types, oob))

Next ==
    \/ CallIdentityRel
    \/ CallBroadcastRel
    \/ CallBroadcastCompRel
    \/ CallConcatRel

Spec == Init /\ [][Next]_vars

TypeOK ==
    /\ rel \in Relations
    /\ status \in {"ready", "returned", "failed"}
    /\ calls \in 0..MaxCalls
    /\ (status = "ready") = (calls = 0)
    /\ (status = "failed") = (err # NoError)
    /\ Len(types) = Len(args)

----------------------------------------------------------------------------
(* Vocabulary of the properties, defined from first principles. *)

Called == status # "ready"

AllConcrete(ts) == \A i \in 1..Len(ts) : ~IsIncomplete(ts[i])

\* every dimension of the shape is an integer constant
IsConstShape(sh) == \A i \in 1..Len(sh) : sh[i].node = "IntImm"

\* the integer values of a constant shape
Values(sh) == [i \in 1..Len(sh) |-> sh[i].value]

\* s left-padded with 1s to rank n
PadLeft(s, n) == [i \in 1..n |-> IF i <= n - Len(s) THEN 1 ELSE s[i - (n - Len(s))]]

\* the aligned pairs of dimensions (d1, d2) that cannot be broadcast
MismatchedPairs(a, b) ==
    LET n == Max(Len(a), Len(b))
        pa == PadLeft(a, n)
        pb == PadLeft(b, n)
    IN  {<<pa[i], pb[i]>> : i \in {j \in 1..n : pa[j] # pb[j] /\ pa[j] # 1 /\ pb[j] # 1}}

\* NumPy broadcasting of two integer shapes
NumpyBroadcast(a, b) ==
    LET n == Max(Len(a), Len(b))
        pa == PadLeft(a, n)
        pb == PadLeft(b, n)
    IN  [i \in 1..n |-> Max(pa[i], pb[i])]

\* the last call was a broadcast relation on two tensors of constant shape
BroadcastOnConstTensors ==
    /\ Called
    /\ rel \in {"BroadcastRel", "BroadcastCompRel"}
    /\ IsTensor(args[1]) /\ IsTensor(args[2])
    /\ IsConstShape(args[1].shape) /\ IsConstShape(args[2].shape)

\* the element kind the relation prescribes for its output
OutKind == IF rel = "BroadcastCompRel" THEN "bool" ELSE args[1].dtype

\* the dimensions of a shape other than axis 0
Suffix(sh) == IF Len(sh) = 0 THEN <<>> ELSE Tail(sh)

\* the sum of the axis-0 dimensions of the fields that have one
RECURSIVE SumAxis0(_)
SumAxis0(fields) ==
    IF fields = <<>> THEN 0
    ELSE (IF Len(fields[1].shape) = 0 THEN 0 ELSE fields[1].shape[1].value)
            + SumAxis0(Tail(fields))

\* the last call was ConcatRel on a tuple of two or more tensors and an
\* Incomplete output slot
ConcatForward ==
    /\ Called
    /\ rel = "ConcatRel"
    /\ args[1].kind = "Tuple"
    /\ Len(args[1].fields) >= 2
    /\ \A k \in 1..Len(args[1].fields) : IsTensor(args[1].fields[k])
    /\ IsIncomplete(args[2])

SuffixesAgree(fields) ==
    \A k \in 1..Len(fields) : Suffix(fields[k].shape) = Suffix(fields[1].shape)

----------------------------------------------------------------------------
(* C1: idempotence under re-invocation.  Whenever a relation has returned  *)
(* a list and is called again on that list, the second call returns, and   *)
(* returns exactly that list.  (A second call is only made after the first *)
(* returned, so at calls >= 2 args is a previous output.)                  *)
C1_Idempotent == calls >= 2 => (status = "returned" /\ types = args)

(* C2: slot monotonicity.  For every call that returns, a slot that held a *)
(* concrete type in the argument list holds the identical type in the      *)
(* returned list.                                                          *)
C2_SlotMonotonic ==
    status = "returned" =>
        \A i \in 1..Len(args) : ~IsIncomplete(args[i]) => types[i] = args[i]

(* C3: for every pair of compatible constant shapes, in either operand     *)
(* order and for any ranks, the broadcast relation returns [t1, t2, r]     *)
(* where r has the NumPy broadcast shape (left-pad with 1s, max per        *)
(* dimension) and the prescribed element kind.                             *)
C3_BroadcastIsNumpy ==
    ( /\ BroadcastOnConstTensors
      /\ rel = "BroadcastRel" => args[1].dtype = args[2].dtype
      /\ MismatchedPairs(Values(args[1].shape), Values(args[2].shape)) = {} )
    => /\ status = "returned"
       /\ types = <<args[1], args[2],
                    TensorType(Sh(NumpyBroadcast(Values(args[1].shape),
                                                 Values(args[2].shape))),
                               OutKind)>>

(* C4: on two concrete tensors with constant dimensions (of one element    *)
(* kind, for BroadcastRel) the call fails if and only if some aligned pair *)
(* of dimensions differs with neither equal to 1, and the failure is a     *)
(* dimension mismatch reporting such a pair; no other pair of shapes fails.*)
C4_MismatchIff ==
    ( /\ BroadcastOnConstTensors
      /\ rel = "BroadcastRel" => args[1].dtype = args[2].dtype )
    => LET bad == MismatchedPairs(Values(args[1].shape), Values(args[2].shape))
       IN  /\ (status = "failed") <=> (bad # {})
           /\ status = "failed" =>
                 /\ err.kind = "Dimension mismatch"
                 /\ <<err.dim1, err.dim2>> \in bad

(* C5: ConcatRel on a tuple of two or more tensors and an Incomplete       *)
(* output fails whenever some field's non-axis-0 dimensions are not equal, *)
(* position by position, to the first field's.                             *)
C5_ConcatRejectsMismatch ==
    (ConcatForward /\ ~SuffixesAgree(args[1].fields)) => status = "failed"

\* the concatenation the claim describes: the first field's element kind,
\* the summed axis-0 dimension, then the first field's other dimensions
ConcatOf(fields) ==
    TensorType(<<IntImm(SumAxis0(fields))>> \o Suffix(fields[1].shape),
               fields[1].dtype)

(* C6 as stated: ConcatRel on a tuple of two or more tensors whose         *)
(* non-axis-0 dimensions all agree, with an Incomplete output slot,        *)
(* returns [input, T], T the concatenation along axis 0.                   *)
C6_AnyDimensions ==
    (ConcatForward /\ SuffixesAgree(args[1].fields))
    => (status = "returned" /\ types = <<args[1], ConcatOf(args[1].fields)>>)

(* C6, amended: ConcatRel on a tuple of two or more tensors all of whose   *)
(* dimensions are integer constants and whose non-axis-0 dimensions all    *)
(* agree, with an Incomplete output slot, returns [input, T]: T has the    *)
(* first field's element kind and shape [sum of the axis-0 dimensions]     *)
(* followed by the first field's non-axis-0 dimensions; the input slot is  *)
(* unchanged.                                                              *)
C6_ConcatForwardResult ==
    ( /\ ConcatForward
      /\ \A k \in 1..Len(args[1].fields) : IsConstShape(args[1].fields[k].shape)
      /\ SuffixesAgree(args[1].fields) )
    => (status = "returned" /\ types = <<args[1], ConcatOf(args[1].fields)>>)

\* [2,5] and [3,5] have been concatenated to [5,5]
C6_Witness ==
    /\ rel = "ConcatRel"
    /\ status = "returned"
    /\ args = <<TupleType(<<T(<<2, 5>>), T(<<3, 5>>)>>), IncompleteType(2)>>
    /\ types[2] = T(<<5, 5>>)

(* C7: ConcatRel's case split.  (1) input and output both Incomplete: the  *)
(* list is returned unchanged.  (2) output Incomplete, input not: forward  *)
(* inference, which fails if the input is not a tuple or has fewer than    *)
(* two fields, and which, if it returns, keeps the input and fills the     *)
(* output with a tensor type.  (3) output not Incomplete: the call fails   *)
(* with the 'can not deduce' relation error, whatever the input is.        *)
C7_ConcatCaseSplit ==
    (Called /\ rel = "ConcatRel") =>
        /\ (IsIncomplete(args[1]) /\ IsIncomplete(args[2]))
              => (status = "returned" /\ types = args)
        /\ (~IsIncomplete(args[1]) /\ IsIncomplete(args[2]))
              => /\ args[1].kind # "Tuple"
                    => (status = "failed"
                        /\ err.kind = "TypeRelationError: concat needs a tuple")
                 /\ (args[1].kind = "Tuple" /\ Len(args[1].fields) < 2)
                    => (status = "failed" /\ err.kind = "CHECK_LT fields.size")
                 /\ status = "returned"
                    => (types[1] = args[1] /\ IsTensor(types[2]))
        /\ ~IsIncomplete(args[2])
              => (status = "failed" /\ err.kind = "TypeRelationError: can not deduce")

\* a call with a tuple input and a concrete output has failed
C7_Witness ==
    /\ rel = "ConcatRel"
    /\ status = "failed"
    /\ args[1] = TupleType(<<T(<<2, 5>>), T(<<3, 5>>)>>)
    /\ IsTensor(args[2])
    /\ err.kind = "TypeRelationError: can not deduce"

(* C8: no silent coercion.  A call of BroadcastRel or BroadcastCompRel on  *)
(* two concrete tensors of different element kinds always fails; and when  *)
(* BroadcastRel returns on tensors of equal kind, the output has that kind.*)
C8_NoCoercion ==
    ( /\ Called
      /\ rel \in {"BroadcastRel", "BroadcastCompRel"}
      /\ IsTensor(args[1]) /\ IsTensor(args[2]) )
    => /\ args[1].dtype # args[2].dtype => status = "failed"
       /\ (rel = "BroadcastRel" /\ status = "returned")
             => types[3].dtype = args[1].dtype

\* the slots of a list satisfy the relation
Consistent(r, ts) ==
    IF r = "IdentityRel" THEN ts[2] = ts[1]
    ELSE IF r = "ConcatRel"
    THEN /\ ts[1].kind = "Tuple"
         /\ Len(ts[1].fields) >= 2
         /\ \A k \in 1..Len(ts[1].fields) :
                IsTensor(ts[1].fields[k]) /\ IsConstShape(ts[1].fields[k].shape)
         /\ SuffixesAgree(ts[1].fields)
         /\ ts[2] = ConcatOf(ts[1].fields)
    ELSE /\ IsTensor(ts[1]) /\ IsTensor(ts[2])
         /\ IsConstShape(ts[1].shape) /\ IsConstShape(ts[2].shape)
         /\ MismatchedPairs(Values(ts[1].shape), Values(ts[2].shape)) = {}
         /\ ts[3] = TensorType(Sh(NumpyBroadcast(Values(ts[1].shape),
                                                 Values(ts[2].shape))),
                               IF r = "BroadcastCompRel" THEN "bool" ELSE ts[1].dtype)

(* C9: terminal states are consistent.  Whenever a call returns a list in  *)
(* which all slots are concrete, the slots satisfy the relation; a call on *)
(* an all-concrete inconsistent list fails instead of returning.           *)
C9_TerminalConsistent ==
    (status = "returned" /\ AllConcrete(types)) => Consistent(rel, types)

(* C10: identity and deferral.  IdentityRel returns [input, input] when    *)
(* slot 0 is a tensor and slot 1 is Incomplete, and the argument list      *)
(* unchanged in every other case; BroadcastRel and BroadcastCompRel return *)
(* the argument list unchanged when an input slot is not a tensor.         *)
C10_IdentityAndDeferral ==
    Called =>
        /\ rel = "IdentityRel"
              => /\ status = "returned"
                 /\ types = IF IsTensor(args[1]) /\ IsIncomplete(args[2])
                            THEN <<args[1], args[1]>>
                            ELSE args
        /\ ( /\ rel \in {"BroadcastRel", "BroadcastCompRel"}
             /\ ~IsTensor(args[1]) \/ ~IsTensor(args[2]) )
              => (status = "returned" /\ types = args)

\* (Tensor [4], Incomplete) has become (Tensor [4], Tensor [4])
C10_Witness ==
    /\ rel = "IdentityRel"
    /\ calls = 1
    /\ args = <<T(<<4>>), IncompleteType(2)>>
    /\ types = <<T(<<4>>), T(<<4>>)>>

====
